---- MODULE Spec2Model ----
(***************************************************************************)
(* A model of the Allora plugin: the configuration resolver                *)
(* (src/config.ts), the topic cache and topics provider                    *)
(* (src/providers/topics.ts) and the GET_INFERENCE action handler          *)
(* (src/actions/getInference.ts).                                          *)
(*                                                                         *)
(* JavaScript values are modelled as follows.  A setting or environment    *)
(* value is a string; the two non-string values the code distinguishes,    *)
(* undefined and null, are the reserved strings Undefined and Null.  Time  *)
(* is Date.now() in whole seconds.  Every await of the code is a point     *)
(* where other invocations may run, so each action below is the code       *)
(* between two awaits.  node-cache, zod and the Allora SDK are libraries:  *)
(* the cache entry follows node-cache 5.1.2 (an entry set at time s with   *)
(* stdTTL is served while Date.now() <= s + stdTTL and dropped after), the *)
(* SDK calls resolve with any of a few answers or reject.                  *)
(***************************************************************************)
EXTENDS Integers, Sequences, FiniteSets, TLC

VARIABLES
    cache,      \* the NodeCache entry stored under the key "allora-topics"
    now,        \* Date.now(), in seconds
    g,          \* the calls of topicsProvider.get made by the host, one record each
    h,          \* the invocation of getInferenceAction.handler
    lastPop,    \* history: the topic list stored by the latest cache.set, and when
    cfgIn,      \* configuration resolver: the settings and environment given
    cfgOut,     \* configuration resolver: what validateAlloraConfig returned
    val,        \* getInferenceAction.validate: the arguments given and what it returned
    svc,        \* the AlloraService runtime.getService("allora-service") returns
    q,          \* the latest query made of the service and its outcome
    scache,     \* service-bound variant: the NodeCache entry of its topics provider
    sg,         \* service-bound variant: a call of topicsProvider.get by the host
    sh          \* service-bound variant: the invocation of the action handler

\* the state of the plugin of src/src and the state added by the service and
\* the service-bound variant
core == <<cache, now, g, h, lastPop, cfgIn, cfgOut>>
ext == <<val, svc, q, scache, sg, sh>>

vars == <<cache, now, g, h, lastPop, cfgIn, cfgOut, val, svc, q, scache, sg, sh>>

(***************************************************************************)
(* Bounds of the model.                                                    *)
(***************************************************************************)
MaxNow == 2701
NumGetters == 2
MaxTopics == 4

TimeSteps == {900, 1801}
Getters == 1..NumGetters

(***************************************************************************)
(* Configuration resolver, src/config.ts                                   *)
(***************************************************************************)
Undefined == "<undefined>"
Null == "<null>"

\* mutant: the environment value is taken before the setting
CoalesceEnvFirst(a, b) == IF b \in {Undefined, Null} THEN a ELSE b

\* a ?? b
Coalesce(a, b) == IF a \in {Undefined, Null} THEN b ELSE a

ChainSlugEnum == {"allora-testnet", "allora-mainnet", "local"}
DefaultChainSlug == "allora-testnet"
LegacyChainSlug == "testnet"

\* mutant: z.string() without min(1), which lets the empty key through
ApiKeyIssuesNoMin(apiKey) ==
    IF apiKey \in {Undefined, Null}
    THEN {[path |-> "ALLORA_API_KEY", code |-> "invalid_type"]}
    ELSE {}

\* z.string().min(1, ...): the issues zod raises for ALLORA_API_KEY
ApiKeyIssues(apiKey) ==
    IF apiKey \in {Undefined, Null}
    THEN {[path |-> "ALLORA_API_KEY", code |-> "invalid_type"]}
    ELSE IF Len(apiKey) < 1
         THEN {[path |-> "ALLORA_API_KEY", code |-> "too_small"]}
         ELSE {}

\* z.enum([...]).default("allora-testnet"): the issues zod raises for ALLORA_CHAIN_SLUG
ChainSlugIssues(chainSlug) ==
    IF chainSlug = Undefined \/ chainSlug \in ChainSlugEnum
    THEN {}
    ELSE IF chainSlug = Null
         THEN {[path |-> "ALLORA_CHAIN_SLUG", code |-> "invalid_type"]}
         ELSE {[path |-> "ALLORA_CHAIN_SLUG", code |-> "invalid_enum_value"]}

\* the chain slug before validation: setting, else environment, else the default
ResolveChainSlug(setting, env) ==
    Coalesce(Coalesce(setting, env), DefaultChainSlug)

\* mutant: the legacy value is passed on to the schema as it is
NormalizeChainSlugKeep(chainSlug) == chainSlug

\* the legacy "testnet" value is rewritten to the default member
NormalizeChainSlug(chainSlug) ==
    IF chainSlug = LegacyChainSlug THEN DefaultChainSlug ELSE chainSlug

\* ConfigSchema.parse(config): the parsed configuration, or the ZodError thrown
ConfigSchemaParse(apiKey, chainSlug) ==
    LET issues == ApiKeyIssues(apiKey) \cup ChainSlugIssues(chainSlug) IN
    IF issues = {}
    THEN [ok |-> TRUE,
          ALLORA_API_KEY |-> apiKey,
          ALLORA_CHAIN_SLUG |->
              IF chainSlug = Undefined THEN DefaultChainSlug ELSE chainSlug,
          issues |-> {}]
    ELSE [ok |-> FALSE,
          ALLORA_API_KEY |-> Undefined,
          ALLORA_CHAIN_SLUG |-> Undefined,
          issues |-> issues]

\* settings: what runtime.getSetting returns; env: process.env
validateAlloraConfig(settings, env) ==
    LET apiKey == Coalesce(settings.ALLORA_API_KEY, env.ALLORA_API_KEY)
        chainSlug == NormalizeChainSlug(
            ResolveChainSlug(settings.ALLORA_CHAIN_SLUG, env.ALLORA_CHAIN_SLUG))
    IN  ConfigSchemaParse(apiKey, chainSlug)

\* error.message of the ZodError thrown by ConfigSchema.parse
ZodMessage(issues) ==
    (IF \E i \in issues : i.path = "ALLORA_API_KEY"
     THEN "ZodError: ALLORA_API_KEY" ELSE "ZodError:")
    \o (IF \E i \in issues : i.path = "ALLORA_CHAIN_SLUG"
        THEN " ALLORA_CHAIN_SLUG" ELSE "")

(***************************************************************************)
(* The runtimes of the process: what each one's getSetting returns.        *)
(* process.env holds neither variable while the plugin runs.               *)
(***************************************************************************)
TestnetRuntime ==
    [ALLORA_API_KEY |-> "test-api-key", ALLORA_CHAIN_SLUG |-> "allora-testnet"]

Runtimes ==
    { TestnetRuntime,
      [ALLORA_API_KEY |-> "test-api-key", ALLORA_CHAIN_SLUG |-> "allora-mainnet"],
      [ALLORA_API_KEY |-> Null, ALLORA_CHAIN_SLUG |-> Null] }

\* the runtimes of a host that runs one agent
HostRuntimes == { TestnetRuntime, [ALLORA_API_KEY |-> Null, ALLORA_CHAIN_SLUG |-> Null] }

ProcessEnv == [ALLORA_API_KEY |-> Undefined, ALLORA_CHAIN_SLUG |-> Undefined]

NoRuntime == [ALLORA_API_KEY |-> Undefined, ALLORA_CHAIN_SLUG |-> Undefined]

(***************************************************************************)
(* Topics, as the external API returns them.                               *)
(***************************************************************************)
Topic(id, name, active) ==
    [topic_id |-> id, topic_name |-> name, description |-> "ETH price prediction",
     is_active |-> active, updated_at |-> "2024-01-01T00:00:00Z"]

ETH5 == Topic(13, "ETH 5min", TRUE)
BTC24 == Topic(14, "BTC 24h", FALSE)

SOL10 == Topic(15, "SOL 10min", TRUE)

\* the lists getAllTopics may answer with
TopicLists == { <<>>, <<ETH5>>, <<ETH5, BTC24>> }

\* every list of at most MaxTopics topics, in any order, repetitions included
KnownTopics == {ETH5, BTC24, SOL10}
TopicSeqs == UNION { [1..n -> KnownTopics] : n \in 0..MaxTopics }

ServiceErrors == {"timeout"}

(***************************************************************************)
(* Topic cache: new NodeCache({ stdTTL: 30 * 60 }), src/providers/topics.ts *)
(***************************************************************************)
stdTTL == 30 * 60

EmptyCache == [present |-> FALSE, v |-> <<>>, t |-> 0]

\* mutant: the entry outlives its expiry time by another TTL
ExpiredLate(entry, time) == entry.present /\ entry.t + stdTTL < time

\* NodeCache._check: an entry is dropped once its expiry time lies in the past
Expired(entry, time) == entry.present /\ entry.t < time

\* cache.get(cacheKey): the stored value, or undefined
CacheGet(entry, time) ==
    IF entry.present /\ ~Expired(entry, time)
    THEN [found |-> TRUE, v |-> entry.v]
    ELSE [found |-> FALSE, v |-> <<>>]

\* mutant: if (cachedValue.length), which takes a stored empty list for a miss
TruthyNonEmpty(got) == got.found /\ got.v # <<>>

\* if (cachedValue): undefined is falsy, every array (the empty one too) is truthy
Truthy(got) == got.found

\* cache.set(cacheKey, alloraTopics)
CacheSet(topics, time) == [present |-> TRUE, v |-> topics, t |-> time + stdTTL]

NoClient == [set |-> FALSE, chainSlug |-> "", apiKey |-> ""]

\* new AlloraAPIClient({ chainSlug, apiKey })
Client(config) ==
    [set |-> TRUE, chainSlug |-> config.ALLORA_CHAIN_SLUG, apiKey |-> config.ALLORA_API_KEY]

\* history of the cache: the list the latest cache.set stored, when, and the
\* client it was fetched through (set), or that the TTL of the latest stored
\* list has run out (was)
Pop(topics, time, by) ==
    [set |-> TRUE, was |-> FALSE, v |-> topics, at |-> time, by |-> by]
NoPop == [set |-> FALSE, was |-> FALSE, v |-> <<>>, at |-> 0, by |-> NoClient]
ExpiredPop == [set |-> FALSE, was |-> TRUE, v |-> <<>>, at |-> 0, by |-> NoClient]

(***************************************************************************)
(* topicsProvider.get, lines 38-60: what it returns for the list that      *)
(* getAlloraTopics gave.  text is the output string as the sequence of its *)
(* lines, each of which the code ends with "\n".                           *)
(***************************************************************************)
Header == "Allora Network Topics: "

\* `${topic.is_active}`
BoolText(b) == IF b THEN "true" ELSE "false"

\* lines 42-47: the lines appended for one topic
TopicBlock(topic) ==
    << "Topic Name: " \o topic.topic_name,
       "Topic Description: " \o topic.description,
       "Topic ID: " \o ToString(topic.topic_id),
       "Topic is Active: " \o BoolText(topic.is_active),
       "Topic Updated At: " \o topic.updated_at,
       "" >>

\* mutant: only the active topics are rendered
RECURSIVE RenderActiveOnly(_, _)
RenderActiveOnly(output, topics) ==
    IF topics = <<>> THEN output
    ELSE RenderActiveOnly(
             IF Head(topics).is_active THEN output \o TopicBlock(Head(topics)) ELSE output,
             Tail(topics))

\* lines 41-48: for (const topic of alloraTopics) output += ...
RECURSIVE Render(_, _)
Render(output, topics) ==
    IF topics = <<>> THEN output
    ELSE Render(output \o TopicBlock(Head(topics)), Tail(topics))

\* mutant: every topic is counted as active
ActiveCountAll(topics) == Len(topics)

\* line 56: alloraTopics.filter((topic) => topic.is_active).length
ActiveCount(topics) == Len(SelectSeq(topics, LAMBDA topic : topic.is_active))

\* mutant: an empty list is taken for a failure and nothing is returned
ProviderResultOrNothing(topics) ==
    IF topics = <<>>
    THEN [returned |-> FALSE,
          data |-> [topics |-> <<>>, count |-> 0],
          values |-> [activeTopics |-> 0, totalTopics |-> 0],
          text |-> <<>>]
    ELSE [returned |-> TRUE,
          data |-> [topics |-> topics, count |-> Len(topics)],
          values |-> [activeTopics |-> ActiveCount(topics), totalTopics |-> Len(topics)],
          text |-> Render(<<Header>>, topics)]

\* lines 40-60
ProviderResult(topics) ==
    [returned |-> TRUE,
     data |-> [topics |-> topics, count |-> Len(topics)],
     values |-> [activeTopics |-> ActiveCount(topics), totalTopics |-> Len(topics)],
     text |-> Render(<<Header>>, topics)]

\* topicsProvider.get has returned nothing (yet, or because it threw)
NoResult ==
    [returned |-> FALSE,
     data |-> [topics |-> <<>>, count |-> 0],
     values |-> [activeTopics |-> 0, totalTopics |-> 0],
     text |-> <<>>]

(***************************************************************************)
(* topicsProvider.get called by the host: getAlloraTopics.                 *)
(* Of a call: pc, where it is; ok, topics, err: what it returned or threw; *)
(* calls: the getAllTopics calls it issued; out: the structure returned.    *)
(* The other fields are history:                                           *)
(* cfgOk, its runtime's configuration is valid; age, the seconds between   *)
(* the latest cache.set and its start, or -1 when it started with nothing  *)
(* stored or the TTL run out; stale, it started after the TTL ran out;     *)
(* saw, the list the latest cache.set had stored; overlap, another get was *)
(* waiting for getAllTopics when it started; resp, what getAllTopics       *)
(* answered; rt, the runtime it was called with; by, the client its list   *)
(* was fetched through.                                                    *)
(***************************************************************************)
IdleGet ==
    [pc |-> "idle", ok |-> FALSE, topics |-> <<>>, err |-> "", calls |-> 0,
     cfgOk |-> FALSE, age |-> -1, stale |-> FALSE,
     saw |-> <<>>, overlap |-> FALSE, resp |-> <<>>, out |-> NoResult,
     rt |-> NoRuntime, by |-> NoClient]

\* the gets waiting for getAllTopics
InFlight == {x \in Getters : g[x].pc = "topics"}

\* the history fields of a get that starts now
Started(rt) ==
    [IdleGet EXCEPT !.rt = rt,
                    !.cfgOk = validateAlloraConfig(rt, ProcessEnv).ok,
                    !.age = IF lastPop.set THEN now - lastPop.at ELSE -1,
                    !.stale = lastPop.was,
                    !.saw = lastPop.v,
                    !.overlap = (InFlight # {} \/ h.pc = "topics")]

\* lines 14-28 (and 38-60 on a hit): cache lookup, then configuration, then
\* the external call is issued
GetStart(x, rt) ==
    /\ g[x].pc = "idle"
    /\ LET got == CacheGet(cache, now)
           config == validateAlloraConfig(rt, ProcessEnv)
       IN  /\ cache' = IF Expired(cache, now) THEN EmptyCache ELSE cache
           /\ g' = [g EXCEPT ![x] =
                 IF Truthy(got)
                 THEN [Started(rt) EXCEPT !.pc = "done", !.ok = TRUE, !.topics = got.v,
                                          !.out = ProviderResult(got.v),
                                          !.by = lastPop.by]
                 ELSE IF ~config.ok
                      THEN [Started(rt) EXCEPT !.pc = "done",
                                               !.err = ZodMessage(config.issues)]
                      ELSE [Started(rt) EXCEPT !.pc = "topics", !.calls = 1,
                                               !.by = Client(config)]]
    /\ UNCHANGED <<now, h, lastPop, cfgIn, cfgOut, ext>>

\* mutant: a get that finds the cache filled meanwhile returns the stored list
\* and drops its own
GetTopicsOkCoalesced(x, topics) ==
    /\ g[x].pc = "topics"
    /\ cache' = IF CacheGet(cache, now).found THEN cache ELSE CacheSet(topics, now)
    /\ lastPop' = IF CacheGet(cache, now).found THEN lastPop ELSE Pop(topics, now, g[x].by)
    /\ g' = [g EXCEPT ![x].pc = "done", ![x].ok = TRUE,
                      ![x].topics = IF CacheGet(cache, now).found THEN cache.v ELSE topics,
                      ![x].resp = topics,
                      ![x].out = ProviderResult(
                          IF CacheGet(cache, now).found THEN cache.v ELSE topics)]
    /\ UNCHANGED <<now, h, cfgIn, cfgOut, ext>>

\* lines 28-32 and 38-60: getAllTopics resolved; the list is stored, rendered
\* and returned
GetTopicsOk(x, topics) ==
    /\ g[x].pc = "topics"
    /\ cache' = CacheSet(topics, now)
    /\ lastPop' = Pop(topics, now, g[x].by)
    /\ g' = [g EXCEPT ![x].pc = "done", ![x].ok = TRUE, ![x].topics = topics,
                      ![x].resp = topics, ![x].out = ProviderResult(topics)]
    /\ UNCHANGED <<now, h, cfgIn, cfgOut, ext>>

\* mutant: a failed call is cached as an empty list
GetTopicsFailCaching(x, m) ==
    /\ g[x].pc = "topics"
    /\ cache' = CacheSet(<<>>, now)
    /\ g' = [g EXCEPT ![x].pc = "done", ![x].err = m]
    /\ UNCHANGED <<now, h, lastPop, cfgIn, cfgOut, ext>>

\* line 28: getAllTopics rejected; the error leaves getAlloraTopics
GetTopicsFail(x, m) ==
    /\ g[x].pc = "topics"
    /\ g' = [g EXCEPT ![x].pc = "done", ![x].err = m]
    /\ UNCHANGED <<cache, now, h, lastPop, cfgIn, cfgOut, ext>>

\* the host has taken the result
GetReturn(x) ==
    /\ g[x].pc = "done"
    /\ g' = [g EXCEPT ![x] = IdleGet]
    /\ UNCHANGED <<cache, now, h, lastPop, cfgIn, cfgOut, ext>>

\* NodeCache's periodic _checkData deletes an expired entry
CheckData ==
    /\ Expired(cache, now)
    /\ cache' = EmptyCache
    /\ UNCHANGED <<now, g, h, lastPop, cfgIn, cfgOut, ext>>

\* time passes
Tick(dt) ==
    /\ now + dt <= MaxNow
    /\ now' = now + dt
    /\ lastPop' = IF lastPop.set /\ now' - lastPop.at > stdTTL
                  THEN ExpiredPop ELSE lastPop
    /\ UNCHANGED <<cache, g, h, cfgIn, cfgOut, ext>>

(***************************************************************************)
(* GET_INFERENCE handler, src/actions/getInference.ts                      *)
(***************************************************************************)
Source == "@elizaos-plugins/allora"

\* what runtime.generateText may answer with.  json: parseJSONObjectFromText
\* finds an object in the text; shape: the object passes schema.safeParse;
\* the other fields are the validated topicId and topicName (null or a value)
Completion(json, shape, idNull, id, nameNull, name) ==
    [json |-> json, shape |-> shape, idNull |-> idNull, id |-> id,
     nameNull |-> nameNull, name |-> name]

NoFields == Completion(FALSE, FALSE, TRUE, 0, TRUE, "")

\* generatedContent before generateText has answered
NotGenerated == Completion(FALSE, FALSE, TRUE, 0, TRUE, "<not generated>")

Completions ==
    { NoFields,                                          \* no JSON in the text
      Completion(TRUE, FALSE, TRUE, 0, TRUE, ""),        \* {"topicId": "13"}
      Completion(TRUE, TRUE, TRUE, 0, TRUE, ""),         \* both null
      Completion(TRUE, TRUE, FALSE, 13, FALSE, "ETH 5min"),
      Completion(TRUE, TRUE, FALSE, 14, FALSE, "BTC 24h"),
      Completion(TRUE, TRUE, FALSE, 0, FALSE, "ETH 5min"),
      Completion(TRUE, TRUE, FALSE, 13, FALSE, ""),
      Completion(TRUE, TRUE, FALSE, 13, TRUE, "") }

InferenceValues == {"3393.364326646801085508", "0.5"}

StateErrors == {"State composition failed"}
ModelErrors == {"model unavailable"}
MemoryErrors == {"database unavailable"}

\* reading inference_data.network_inference_normalized of a response without inference_data
MalformedMessage == "Cannot read properties of undefined (reading 'network_inference_normalized')"

\* line 82: if (!parsedResult)
ParseFailed(c) == ~c.json

\* mutant: the parsed object is used without schema validation
ValidationFailedNever(c) == FALSE

\* line 94: if (!validationResult.success)
ValidationFailed(c) == ~c.shape

\* line 106: if (!inferenceFields.topicId || !inferenceFields.topicName)
NoTopic(f) == (f.idNull \/ f.id = 0) \/ (f.nameNull \/ f.name = "")

ParseFailedText == "Failed to understand the request. Please try again."
ValidationFailedText == "Failed to parse the request properly. Please try again."
NoTopicText == "There is no active Allora Network topic that matches your request."

\* mutant: the topic id and the topic name change places in the text
InferenceTextIdFirst(topicName, topicId, inferenceValue) ==
    "Inference provided by Allora Network on topic " \o ToString(topicId)
    \o " (Topic ID: " \o topicName \o "): " \o inferenceValue

\* line 150
InferenceText(topicName, topicId, inferenceValue) ==
    "Inference provided by Allora Network on topic " \o topicName
    \o " (Topic ID: " \o ToString(topicId) \o "): " \o inferenceValue

\* line 176
ErrorText(errorMessage) ==
    "There was an error fetching the inference from Allora Network: " \o errorMessage

\* mutant: the memory is tagged with the action's similes instead of its name
MetadataSimile(keys, topicId, topicName, inferenceValue, error) ==
    [type |-> "action_response", actionName |-> "GET_ALLORA_INFERENCE", keys |-> keys,
     topicId |-> topicId, topicName |-> topicName,
     inferenceValue |-> inferenceValue, error |-> error]

\* the metadata of a memory; keys are the optional fields it carries
Metadata(keys, topicId, topicName, inferenceValue, error) ==
    [type |-> "action_response", actionName |-> "GET_INFERENCE", keys |-> keys,
     topicId |-> topicId, topicName |-> topicName,
     inferenceValue |-> inferenceValue, error |-> error]

NoMetadata ==
    [type |-> "", actionName |-> "", keys |-> {}, topicId |-> 0, topicName |-> "",
     inferenceValue |-> "", error |-> ""]

\* one call the handler made, in order: the operation, its topic id argument,
\* the text and source of the content passed, the metadata of the memory passed
Call(op, id, text, meta) ==
    [op |-> op, id |-> id, text |-> text,
     source |-> IF op \in {"callback", "createMemory"} THEN Source ELSE "",
     meta |-> meta]

CallbackCall(text) == Call("callback", 0, text, NoMetadata)
CreateMemoryCall(text, meta) == Call("createMemory", 0, text, meta)

NoError == [src |-> "", msg |-> ""]

IdleHandler ==
    [pc |-> "idle", rt |-> NoRuntime, topics |-> <<>>, fields |-> NoFields,
     branch |-> "", log |-> <<>>, escaped |-> NoError, topicsErr |-> "",
     fetchErr |-> "", generated |-> NotGenerated, inferenceValue |-> ""]

\* the handler's promise rejects with the error
Escape(rec, src, m) == [rec EXCEPT !.pc = "done", !.escaped = [src |-> src, msg |-> m]]

\* mutant: the catch block persists the memory before it answers the user
CatchMemoryFirst(rec, m) ==
    [rec EXCEPT !.pc = "memory", !.branch = "error",
                !.log = @ \o << CreateMemoryCall(ErrorText(m),
                                    Metadata({"error"}, 0, "", "", m)),
                                CallbackCall(ErrorText(m)) >>]

\* lines 173-200: the catch block; the handler then awaits createMemory
Catch(rec, m) ==
    [rec EXCEPT !.pc = "memory", !.branch = "error",
                !.log = @ \o << CallbackCall(ErrorText(m)),
                                CreateMemoryCall(ErrorText(m),
                                    Metadata({"error"}, 0, "", "", m)) >>]

\* mutant: the inference of the first listed topic is requested while the
\* completion is still awaited
AwaitGenerateFetchEarly(rec, topics) ==
    [rec EXCEPT !.pc = "generate", !.topics = topics,
                !.log = @ \o << Call("getInferenceByTopicID", 13, "", NoMetadata),
                                Call("generateText", 0, "", NoMetadata) >>]

\* lines 61-78: the prompt is composed and generateText is awaited
AwaitGenerate(rec, topics) ==
    [rec EXCEPT !.pc = "generate", !.topics = topics,
                !.log = @ \o << Call("generateText", 0, "", NoMetadata) >>]

\* lines 39-52: the handler starts and awaits composeState or updateRecentMessageState
HStart(rt, hasState) ==
    /\ h.pc = "idle"
    /\ h' = [IdleHandler EXCEPT !.pc = "state", !.rt = rt,
                                !.log = << Call("state", 0, "", NoMetadata) >>]
    /\ UNCHANGED <<cache, now, g, lastPop, cfgIn, cfgOut, ext>>

\* lines 48-52: the state call rejected
HStateFail(m) ==
    /\ h.pc = "state"
    /\ h' = Escape(h, "state", m)
    /\ UNCHANGED <<cache, now, g, lastPop, cfgIn, cfgOut, ext>>

\* lines 54-78 with topics.ts lines 14-28: topicsProvider.get looks the cache up
HStateOk ==
    /\ h.pc = "state"
    /\ LET got == CacheGet(cache, now)
           config == validateAlloraConfig(h.rt, ProcessEnv)
       IN  /\ cache' = IF Expired(cache, now) THEN EmptyCache ELSE cache
           /\ h' = IF Truthy(got)
                   THEN AwaitGenerate(h, got.v)
                   ELSE IF ~config.ok
                        THEN Escape(h, "validateAlloraConfig", ZodMessage(config.issues))
                        ELSE [h EXCEPT !.pc = "topics",
                                       !.log = @ \o << Call("getAllTopics", 0, "", NoMetadata) >>]
    /\ UNCHANGED <<now, g, lastPop, cfgIn, cfgOut, ext>>

\* topics.ts lines 28-32, then lines 61-78
HTopicsOk(topics) ==
    /\ h.pc = "topics"
    /\ cache' = CacheSet(topics, now)
    /\ lastPop' = Pop(topics, now, Client(validateAlloraConfig(h.rt, ProcessEnv)))
    /\ h' = AwaitGenerate(h, topics)
    /\ UNCHANGED <<now, g, cfgIn, cfgOut, ext>>

\* topics.ts line 28 rejected: nothing in the handler catches it
HTopicsFail(m) ==
    /\ h.pc = "topics"
    /\ h' = Escape([h EXCEPT !.topicsErr = m], "getAllTopics", m)
    /\ UNCHANGED <<cache, now, g, lastPop, cfgIn, cfgOut, ext>>

\* line 74 rejected
HGenerateFail(m) ==
    /\ h.pc = "generate"
    /\ h' = Escape(h, "generateText", m)
    /\ UNCHANGED <<cache, now, g, lastPop, cfgIn, cfgOut, ext>>

\* lines 80-145: the completion is parsed, validated and acted on
HGenerateOk(c) ==
    /\ h.pc = "generate"
    /\ LET config == validateAlloraConfig(h.rt, ProcessEnv)
           got == [h EXCEPT !.generated = c]
       IN
       h' = IF ParseFailed(c)
            THEN [got EXCEPT !.pc = "done", !.branch = "parse",
                             !.log = @ \o << CallbackCall(ParseFailedText) >>]
            ELSE IF ValidationFailed(c)
            THEN [got EXCEPT !.pc = "done", !.branch = "validation",
                             !.log = @ \o << CallbackCall(ValidationFailedText) >>]
            ELSE IF NoTopic(c)
            THEN [got EXCEPT !.pc = "memory", !.branch = "nomatch", !.fields = c,
                             !.log = @ \o << CallbackCall(NoTopicText),
                                             CreateMemoryCall(NoTopicText,
                                                 Metadata({}, 0, "", "", "")) >>]
            ELSE IF ~config.ok
            THEN Catch([got EXCEPT !.fields = c], ZodMessage(config.issues))
            ELSE [got EXCEPT !.pc = "inference", !.fields = c,
                             !.log = @ \o << Call("getInferenceByTopicID", c.id, "", NoMetadata) >>]
    /\ UNCHANGED <<cache, now, g, lastPop, cfgIn, cfgOut, ext>>

\* lines 146-172: the inference arrived; callback, then createMemory is awaited
HInferenceOk(v) ==
    /\ h.pc = "inference"
    /\ LET text == InferenceText(h.fields.name, h.fields.id, v) IN
       h' = [h EXCEPT !.pc = "memory", !.branch = "resolved", !.inferenceValue = v,
                      !.log = @ \o << CallbackCall(text),
                                      CreateMemoryCall(text,
                                          Metadata({"topicId", "topicName", "inferenceValue"},
                                                   h.fields.id, h.fields.name, v, "")) >>]
    /\ UNCHANGED <<cache, now, g, lastPop, cfgIn, cfgOut, ext>>

\* mutant: a rejected fetch is tried once more before it is reported
HInferenceFailRetry(m) ==
    /\ h.pc = "inference"
    /\ h' = IF Len(SelectSeq(h.log, LAMBDA c : c.op = "getInferenceByTopicID")) < 2
            THEN [h EXCEPT !.log = @ \o << Call("getInferenceByTopicID", h.fields.id,
                                                "", NoMetadata) >>]
            ELSE Catch([h EXCEPT !.fetchErr = m], m)
    /\ UNCHANGED <<cache, now, g, lastPop, cfgIn, cfgOut, ext>>

\* line 143 rejected with message m: the catch block runs
HInferenceFail(m) ==
    /\ h.pc = "inference"
    /\ h' = Catch([h EXCEPT !.fetchErr = m], m)
    /\ UNCHANGED <<cache, now, g, lastPop, cfgIn, cfgOut, ext>>

\* lines 146-147 on a response without inference_data: a TypeError, caught
HInferenceMalformed ==
    /\ h.pc = "inference"
    /\ h' = Catch(h, MalformedMessage)
    /\ UNCHANGED <<cache, now, g, lastPop, cfgIn, cfgOut, ext>>

\* createMemory resolved: the handler returns
HMemoryOk ==
    /\ h.pc = "memory"
    /\ h' = [h EXCEPT !.pc = "done"]
    /\ UNCHANGED <<cache, now, g, lastPop, cfgIn, cfgOut, ext>>

\* createMemory rejected: inside the try block (line 155) the catch block runs,
\* elsewhere (lines 113, 185) the error leaves the handler
HMemoryFail(m) ==
    /\ h.pc = "memory"
    /\ h' = IF h.branch = "resolved"
            THEN Catch(h, m)
            ELSE Escape(h, "createMemory", m)
    /\ UNCHANGED <<cache, now, g, lastPop, cfgIn, cfgOut, ext>>

\* the runtime has taken the outcome of the handler
HReturn ==
    /\ h.pc = "done"
    /\ h' = IdleHandler
    /\ UNCHANGED <<cache, now, g, lastPop, cfgIn, cfgOut, ext>>

\* the calls of one operation in the handler's log
CallsOf(op) == SelectSeq(h.log, LAMBDA c : c.op = op)

(***************************************************************************)
(* getInferenceAction.validate, src/actions/getInference.ts lines 35-37.   *)
(* A message is given by its id, content, entityId and roomId, each of     *)
(* which may be null.                                                      *)
(***************************************************************************)
Message(id, content, entityId, roomId) ==
    [id |-> id, content |-> content, entityId |-> entityId, roomId |-> roomId]

Messages ==
    { Message(id, content, entityId, roomId) :
          id \in {Null, "test-1"}, content \in {Null, "Test GET_INFERENCE"},
          entityId \in {Null, "agent"}, roomId \in {Null, "test-room"} }

\* mutant: a message without content is refused with a TypeError
validateNeedsContent(runtime, message) ==
    IF message.content = Null
    THEN [threw |-> TRUE, result |-> FALSE]
    ELSE [threw |-> FALSE, result |-> TRUE]

\* async (_runtime, _message) => { return true; }
validate(runtime, message) == [threw |-> FALSE, result |-> TRUE]

NoValidate ==
    [run |-> FALSE, runtime |-> NoRuntime, message |-> Message(Null, Null, Null, Null),
     threw |-> FALSE, result |-> FALSE]

\* the runtime calls validate(runtime, message)
ActionValidate ==
    /\ ~val.run
    /\ val' = [val EXCEPT !.run = TRUE,
                          !.threw = validate(val.runtime, val.message).threw,
                          !.result = validate(val.runtime, val.message).result]
    /\ UNCHANGED <<core, svc, q, scache, sg, sh>>

(***************************************************************************)
(* AlloraService, src/service.ts (src/src/providers/topics.ts lines        *)
(* 64-121).  Of the service: exists, an instance has been constructed (and *)
(* is the one runtime.getService returns); runtime and config, the fields  *)
(* of the instance; alloraClient, null or the client.  History: last, the  *)
(* latest lifecycle call made on the instance; threw, the error of the     *)
(* latest construction that failed.                                        *)
(***************************************************************************)
NoService ==
    [exists |-> FALSE, runtime |-> NoRuntime,
     config |-> ConfigSchemaParse(Undefined, Undefined),
     alloraClient |-> NoClient, last |-> "none", threw |-> ""]

NoQuery == [op |-> "", flag |-> FALSE, text |-> "", client |-> NoClient, threw |-> ""]

\* mutant: a service counts as initialized as soon as it is constructed
isInitializedOnceBuilt(service) == service.exists

\* lines 114-116: this.alloraClient !== null
isInitialized(service) == service.alloraClient # NoClient

\* lines 107-112
getClient(service) ==
    IF ~service.alloraClient.set
    THEN [NoQuery EXCEPT !.op = "getClient", !.threw = "Allora client not initialized"]
    ELSE [NoQuery EXCEPT !.op = "getClient", !.client = service.alloraClient]

\* lines 118-120
getStatus(service) ==
    [NoQuery EXCEPT !.op = "getStatus",
                    !.text = IF isInitialized(service) THEN "initialized"
                             ELSE "not initialized"]

\* history of the handler of the service-bound variant: the service was
\* initialized at some moment of the invocation
Seen(rec, service) ==
    IF rec.pc # "idle" /\ isInitialized(service) THEN [rec EXCEPT !.svcUp = TRUE] ELSE rec

\* lines 74-77: new AlloraService(runtime); the constructor throws the ZodError
\* of validateAlloraConfig and no instance comes to exist
SvcConstruct(rt) ==
    /\ LET config == validateAlloraConfig(rt, ProcessEnv) IN
       svc' = IF config.ok
              THEN [exists |-> TRUE, runtime |-> rt, config |-> config,
                    alloraClient |-> NoClient, last |-> "constructor", threw |-> ""]
              ELSE [svc EXCEPT !.threw = ZodMessage(config.issues)]
    /\ q' = NoQuery
    /\ sh' = Seen(sh, svc')
    /\ UNCHANGED <<core, val, scache, sg>>

\* lines 79-83: AlloraService.start(runtime), the constructor then initialize
SvcStart(rt) ==
    /\ LET config == validateAlloraConfig(rt, ProcessEnv) IN
       svc' = IF config.ok
              THEN [exists |-> TRUE, runtime |-> rt, config |-> config,
                    alloraClient |-> Client(config), last |-> "start", threw |-> ""]
              ELSE [svc EXCEPT !.threw = ZodMessage(config.issues)]
    /\ q' = NoQuery
    /\ sh' = Seen(sh, svc')
    /\ UNCHANGED <<core, val, scache, sg>>

\* lines 85-96
SvcInitialize ==
    /\ svc.exists
    /\ svc' = [svc EXCEPT !.alloraClient = Client(svc.config), !.last = "initialize"]
    /\ q' = NoQuery
    /\ sh' = Seen(sh, svc')
    /\ UNCHANGED <<core, val, scache, sg>>

\* lines 98-101
SvcStop ==
    /\ svc.exists
    /\ svc' = [svc EXCEPT !.alloraClient = NoClient, !.last = "stop"]
    /\ q' = NoQuery
    /\ UNCHANGED <<core, val, scache, sg, sh>>

\* a caller asks the instance: isInitialized(), getClient() or getStatus()
SvcQuery(op) ==
    /\ svc.exists
    /\ q' = CASE op = "isInitialized"
                    -> [NoQuery EXCEPT !.op = op, !.flag = isInitialized(svc)]
               [] op = "getClient" -> getClient(svc)
               [] OTHER -> getStatus(svc)
    /\ q' # q
    /\ UNCHANGED <<core, val, svc, scache, sg, sh>>

(***************************************************************************)
(* Service-bound variant, topics provider: src/src/index.ts lines 33-87.   *)
(* Of a get: pc, ok, topics, err, calls and out as for the gets above.     *)
(* History: miss, the cache held nothing at its start; up, the service was *)
(* initialized at its start; resp, what getAllTopics answered; after, the  *)
(* get before it returned the empty list for want of a service.            *)
(***************************************************************************)
IdleBoundGet ==
    [pc |-> "idle", ok |-> FALSE, topics |-> <<>>, err |-> "", calls |-> 0,
     out |-> NoResult, miss |-> FALSE, up |-> FALSE, resp |-> <<>>, after |-> FALSE]

\* line 47: !alloraService || !alloraService.isInitialized()
Unavailable(service) == ~service.exists \/ ~isInitialized(service)

\* mutant: the empty list returned for want of a service is stored in the cache
SGetStartCachingEmpty ==
    /\ sg.pc = "idle"
    /\ LET got == CacheGet(scache, now)
           begun == [IdleBoundGet EXCEPT !.miss = ~Truthy(got),
                                         !.up = ~Unavailable(svc),
                                         !.after = sg.after]
       IN  /\ scache' = IF Truthy(got) THEN scache
                        ELSE IF Unavailable(svc) THEN CacheSet(<<>>, now)
                        ELSE EmptyCache
           /\ sg' = IF Truthy(got)
                    THEN [begun EXCEPT !.pc = "done", !.ok = TRUE, !.topics = got.v,
                                       !.out = ProviderResult(got.v)]
                    ELSE IF Unavailable(svc)
                    THEN [begun EXCEPT !.pc = "done", !.ok = TRUE,
                                       !.out = ProviderResult(<<>>)]
                    ELSE [begun EXCEPT !.pc = "topics", !.calls = 1]
    /\ UNCHANGED <<core, val, svc, q, sh>>

\* lines 35-53 (and 62-86 when it returns at once): cache lookup, then the
\* service is looked up, then the external call is issued
SGetStart ==
    /\ sg.pc = "idle"
    /\ LET got == CacheGet(scache, now)
           begun == [IdleBoundGet EXCEPT !.miss = ~Truthy(got),
                                         !.up = ~Unavailable(svc),
                                         !.after = sg.after]
       IN  /\ scache' = IF Expired(scache, now) THEN EmptyCache ELSE scache
           /\ sg' = IF Truthy(got)
                    THEN [begun EXCEPT !.pc = "done", !.ok = TRUE, !.topics = got.v,
                                       !.out = ProviderResult(got.v)]
                    ELSE IF Unavailable(svc)
                    THEN [begun EXCEPT !.pc = "done", !.ok = TRUE,
                                       !.out = ProviderResult(<<>>)]
                    ELSE [begun EXCEPT !.pc = "topics", !.calls = 1]
    /\ UNCHANGED <<core, val, svc, q, sh>>

\* lines 53-57 and 62-86: getAllTopics resolved; the list is stored, rendered
\* and returned
SGetTopicsOk(topics) ==
    /\ sg.pc = "topics"
    /\ scache' = CacheSet(topics, now)
    /\ sg' = [sg EXCEPT !.pc = "done", !.ok = TRUE, !.topics = topics,
                        !.resp = topics, !.out = ProviderResult(topics)]
    /\ UNCHANGED <<core, val, svc, q, sh>>

\* line 53: getAllTopics rejected; the error leaves topicsProvider.get
SGetTopicsFail(m) ==
    /\ sg.pc = "topics"
    /\ sg' = [sg EXCEPT !.pc = "done", !.err = m]
    /\ UNCHANGED <<core, val, svc, q, scache, sh>>

\* the host has taken the result
SGetReturn ==
    /\ sg.pc = "done"
    /\ sg' = [IdleBoundGet EXCEPT !.after = (sg.ok /\ sg.miss /\ ~sg.up)]
    /\ UNCHANGED <<core, val, svc, q, scache, sh>>

\* NodeCache's periodic _checkData deletes an expired entry
SCheckData ==
    /\ Expired(scache, now)
    /\ scache' = EmptyCache
    /\ UNCHANGED <<core, val, svc, q, sg, sh>>

(***************************************************************************)
(* Service-bound variant, action handler: src/dist/index.js lines 75-151.  *)
(* It takes the first active topic of the list instead of asking the       *)
(* language model.  Of the invocation: pc; topics, the list obtained;      *)
(* activeTopic; branch; log, the calls made; escaped, the error thrown.    *)
(* History: svcUp, the service was initialized at some moment of it.       *)
(***************************************************************************)
NoActiveText == "There is no active Allora Network topic available at the moment."
NotInitializedText == "Allora service is not initialized. Please check your configuration."

NoActiveTopic == Topic(0, "", FALSE)

\* line 88: topics.find((topic) => topic.is_active)
RECURSIVE FindActive(_)
FindActive(topics) ==
    IF topics = <<>> THEN NoActiveTopic
    ELSE IF Head(topics).is_active THEN Head(topics)
    ELSE FindActive(Tail(topics))

IdleBoundHandler ==
    [pc |-> "idle", topics |-> <<>>, activeTopic |-> NoActiveTopic, branch |-> "",
     log |-> <<>>, escaped |-> NoError, svcUp |-> FALSE]

\* lines 141-150: the catch block; no memory is recorded
BoundCatch(rec, m) ==
    [rec EXCEPT !.pc = "done", !.branch = "error",
                !.log = @ \o << CallbackCall(ErrorText(m)) >>]

\* lines 87-115: the first active topic is taken, then the service is looked up
Select(rec, topics, service) ==
    LET activeTopic == FindActive(topics)
        got == [rec EXCEPT !.topics = topics, !.activeTopic = activeTopic]
    IN  IF activeTopic = NoActiveTopic
        THEN [got EXCEPT !.pc = "done", !.branch = "noactive",
                         !.log = @ \o << CallbackCall(NoActiveText) >>]
        ELSE IF Unavailable(service)
        THEN [got EXCEPT !.pc = "done", !.branch = "uninitialized",
                         !.log = @ \o << CallbackCall(NotInitializedText) >>]
        ELSE [got EXCEPT !.pc = "inference",
                         !.log = @ \o << Call("getInferenceByTopicID",
                                              activeTopic.topic_id, "", NoMetadata) >>]

\* lines 75-81: the handler starts and awaits composeState or updateRecentMessageState
SHStart(hasState) ==
    /\ sh.pc = "idle"
    /\ sh' = [IdleBoundHandler EXCEPT !.pc = "state", !.svcUp = isInitialized(svc),
                                      !.log = << Call("state", 0, "", NoMetadata) >>]
    /\ UNCHANGED <<core, val, svc, q, scache, sg>>

\* lines 77-81: the state call rejected
SHStateFail(m) ==
    /\ sh.pc = "state"
    /\ sh' = Escape(sh, "state", m)
    /\ UNCHANGED <<core, val, svc, q, scache, sg>>

\* lines 82-115 with lines 13-26: topicsProvider.get looks the cache up
SHStateOk ==
    /\ sh.pc = "state"
    /\ LET got == CacheGet(scache, now) IN
       /\ scache' = IF Expired(scache, now) THEN EmptyCache ELSE scache
       /\ sh' = IF Truthy(got) THEN Select(sh, got.v, svc)
                ELSE IF Unavailable(svc) THEN Select(sh, <<>>, svc)
                ELSE [sh EXCEPT !.pc = "topics",
                                !.log = @ \o << Call("getAllTopics", 0, "", NoMetadata) >>]
    /\ UNCHANGED <<core, val, svc, q, sg>>

\* lines 26-28, then lines 87-115
SHTopicsOk(topics) ==
    /\ sh.pc = "topics"
    /\ scache' = CacheSet(topics, now)
    /\ sh' = Select(sh, topics, svc)
    /\ UNCHANGED <<core, val, svc, q, sg>>

\* line 26 rejected: nothing in the handler catches it
SHTopicsFail(m) ==
    /\ sh.pc = "topics"
    /\ sh' = Escape(sh, "getAllTopics", m)
    /\ UNCHANGED <<core, val, svc, q, scache, sg>>

\* lines 116-140: the inference arrived; callback, then createMemory is awaited
SHInferenceOk(v) ==
    /\ sh.pc = "inference"
    /\ LET text == InferenceText(sh.activeTopic.topic_name, sh.activeTopic.topic_id, v) IN
       sh' = [sh EXCEPT !.pc = "memory", !.branch = "resolved",
                       !.log = @ \o << CallbackCall(text),
                                       CreateMemoryCall(text,
                                           Metadata({"topicId", "topicName", "inferenceValue"},
                                                    sh.activeTopic.topic_id,
                                                    sh.activeTopic.topic_name, v, "")) >>]
    /\ UNCHANGED <<core, val, svc, q, scache, sg>>

\* line 113 rejected, or line 116 read a response without inference_data
SHInferenceFail(m) ==
    /\ sh.pc = "inference"
    /\ sh' = BoundCatch(sh, m)
    /\ UNCHANGED <<core, val, svc, q, scache, sg>>

\* createMemory resolved: the handler returns
SHMemoryOk ==
    /\ sh.pc = "memory"
    /\ sh' = [sh EXCEPT !.pc = "done"]
    /\ UNCHANGED <<core, val, svc, q, scache, sg>>

\* createMemory (line 123) rejected inside the try block: the catch block runs
SHMemoryFail(m) ==
    /\ sh.pc = "memory"
    /\ sh' = BoundCatch(sh, m)
    /\ UNCHANGED <<core, val, svc, q, scache, sg>>

\* the runtime has taken the outcome of the handler
SHReturn ==
    /\ sh.pc = "done"
    /\ sh' = IdleBoundHandler
    /\ UNCHANGED <<core, val, svc, q, scache, sg>>

\* the state of the service, the validate call and the service-bound variant
\* after construction
InitExt ==
    /\ val = NoValidate
    /\ svc = NoService
    /\ q = NoQuery
    /\ scache = EmptyCache
    /\ sg = IdleBoundGet
    /\ sh = IdleBoundHandler

\* the state of the plugin of src/src after construction
InitCore ==
    /\ cache = EmptyCache
    /\ now = 0
    /\ g = [x \in Getters |-> IdleGet]
    /\ h = IdleHandler
    /\ lastPop = NoPop
    /\ cfgIn = [settings |-> NoRuntime, env |-> ProcessEnv]
    /\ cfgOut = [run |-> FALSE, res |-> ConfigSchemaParse(Undefined, Undefined)]

NotValidated == [run |-> FALSE, res |-> ConfigSchemaParse(Undefined, Undefined)]

Init ==
    /\ cache = EmptyCache
    /\ now = 0
    /\ g = [x \in Getters |-> IdleGet]
    /\ h = IdleHandler
    /\ lastPop = NoPop
    /\ cfgIn = [settings |-> NoRuntime, env |-> ProcessEnv]
    /\ cfgOut = NotValidated
    /\ InitExt

\* the steps of one call of topicsProvider.get by the host
GetterStep(x, rts) ==
    \/ \E rt \in rts : GetStart(x, rt)
    \/ \E topics \in TopicLists : GetTopicsOk(x, topics)
    \/ \E m \in ServiceErrors : GetTopicsFail(x, m)
    \/ GetReturn(x)

NextCache ==
    \/ \E x \in Getters : GetterStep(x, HostRuntimes)
    \/ CheckData
    \/ \E dt \in TimeSteps : Tick(dt)

NextHandler ==
    \/ \E rt \in Runtimes, hasState \in BOOLEAN : HStart(rt, hasState)
    \/ \E m \in StateErrors : HStateFail(m)
    \/ HStateOk
    \/ \E topics \in TopicLists : HTopicsOk(topics)
    \/ \E m \in ServiceErrors : HTopicsFail(m)
    \/ \E m \in ModelErrors : HGenerateFail(m)
    \/ \E c \in Completions : HGenerateOk(c)
    \/ \E v \in InferenceValues : HInferenceOk(v)
    \/ \E m \in ServiceErrors : HInferenceFail(m)
    \/ HInferenceMalformed
    \/ HMemoryOk
    \/ \E m \in MemoryErrors : HMemoryFail(m)
    \/ HReturn

\* the handler runs beside one get of the host
Next ==
    \/ NextHandler
    \/ GetterStep(1, HostRuntimes)
    \/ CheckData
    \/ \E dt \in TimeSteps : Tick(dt)

Spec == Init /\ [][Next]_vars

SpecCache == Init /\ [][NextCache]_vars

\* two hosts' agents, with any of the runtimes, call topicsProvider.get in
\* one process
NextShared ==
    \/ GetterStep(1, Runtimes)
    \/ GetterStep(2, Runtimes)
    \/ CheckData
    \/ \E dt \in TimeSteps : Tick(dt)

SpecShared == Init /\ [][NextShared]_vars

(***************************************************************************)
(* The configuration resolver on its own: validateAlloraConfig applied to  *)
(* every combination of settings and environment values below.             *)
(***************************************************************************)
SettingKeyInputs == {Undefined, Null, "", "test-key-12345"}
EnvKeyInputs == {Undefined, "", "env-key"}
SettingSlugInputs ==
    {Undefined, Null, "", "testnet", "allora-testnet", "allora-mainnet", "local",
     "invalid-chain"}
EnvSlugInputs == {Undefined, "testnet", "allora-mainnet", "invalid-chain"}

InitConfig ==
    /\ cache = EmptyCache
    /\ now = 0
    /\ g = [x \in Getters |-> IdleGet]
    /\ h = IdleHandler
    /\ lastPop = NoPop
    /\ cfgIn \in [settings : [ALLORA_API_KEY : SettingKeyInputs,
                              ALLORA_CHAIN_SLUG : SettingSlugInputs],
                  env : [ALLORA_API_KEY : EnvKeyInputs,
                         ALLORA_CHAIN_SLUG : EnvSlugInputs]]
    /\ cfgOut = NotValidated
    /\ InitExt

\* validateAlloraConfig(runtime) is called
Validate ==
    /\ ~cfgOut.run
    /\ cfgOut' = [run |-> TRUE, res |-> validateAlloraConfig(cfgIn.settings, cfgIn.env)]
    /\ UNCHANGED <<cache, now, g, h, lastPop, cfgIn, ext>>

NextConfig == Validate

SpecConfig == InitConfig /\ [][NextConfig]_vars

(***************************************************************************)
(* The topics provider on its own: the cache holds any list the external   *)
(* API may have answered with, and topicsProvider.get is called before the *)
(* TTL runs out.                                                           *)
(***************************************************************************)
InitProvider ==
    /\ \E topics \in TopicSeqs :
           /\ cache = CacheSet(topics, 0)
           /\ lastPop = Pop(topics, 0, Client(validateAlloraConfig(TestnetRuntime, ProcessEnv)))
    /\ now = 0
    /\ g = [x \in Getters |-> IdleGet]
    /\ h = IdleHandler
    /\ cfgIn = [settings |-> NoRuntime, env |-> ProcessEnv]
    /\ cfgOut = NotValidated
    /\ InitExt

NextProvider ==
    \/ \E rt \in Runtimes : GetStart(1, rt)
    \/ GetReturn(1)

SpecProvider == InitProvider /\ [][NextProvider]_vars

(***************************************************************************)
(* getInferenceAction.validate on its own: applied to every runtime and    *)
(* message below.                                                          *)
(***************************************************************************)
InitValidate ==
    /\ InitCore
    /\ svc = NoService /\ q = NoQuery
    /\ scache = EmptyCache /\ sg = IdleBoundGet /\ sh = IdleBoundHandler
    /\ \E runtime \in [ALLORA_API_KEY : SettingKeyInputs,
                        ALLORA_CHAIN_SLUG : SettingSlugInputs],
          message \in Messages :
           val = [NoValidate EXCEPT !.runtime = runtime, !.message = message]

NextValidate == ActionValidate

SpecValidate == InitValidate /\ [][NextValidate]_vars

(***************************************************************************)
(* The service on its own: any sequence of lifecycle calls, made with the  *)
(* runtimes below, and queries between them.                               *)
(***************************************************************************)
ServiceRuntimes ==
    [ALLORA_API_KEY : {Null, "", "test-api-key"},
     ALLORA_CHAIN_SLUG : {Null, "testnet", "allora-mainnet", "local", "invalid-chain"}]

NextService ==
    \/ \E rt \in ServiceRuntimes : SvcConstruct(rt)
    \/ \E rt \in ServiceRuntimes : SvcStart(rt)
    \/ SvcInitialize
    \/ SvcStop
    \/ \E op \in {"isInitialized", "getClient", "getStatus"} : SvcQuery(op)

SpecService == Init /\ [][NextService]_vars

(***************************************************************************)
(* The service-bound variant: the service, its topics provider and its     *)
(* action handler in one process.                                          *)
(***************************************************************************)
NextBound ==
    \/ \E rt \in Runtimes : SvcStart(rt)
    \/ SvcInitialize
    \/ SvcStop
    \/ SGetStart
    \/ \E topics \in TopicLists : SGetTopicsOk(topics)
    \/ \E m \in ServiceErrors : SGetTopicsFail(m)
    \/ SGetReturn
    \/ SCheckData
    \/ \E hasState \in BOOLEAN : SHStart(hasState)
    \/ \E m \in StateErrors : SHStateFail(m)
    \/ SHStateOk
    \/ \E topics \in TopicLists : SHTopicsOk(topics)
    \/ \E m \in ServiceErrors : SHTopicsFail(m)
    \/ \E v \in InferenceValues : SHInferenceOk(v)
    \/ \E m \in ServiceErrors \cup {MalformedMessage} : SHInferenceFail(m)
    \/ SHMemoryOk
    \/ \E m \in MemoryErrors : SHMemoryFail(m)
    \/ SHReturn
    \/ \E dt \in TimeSteps : Tick(dt)

SpecBound == Init /\ [][NextBound]_vars

(***************************************************************************)
(* Claims about the GET_INFERENCE handler, checked under Spec.             *)
(***************************************************************************)

\* C1: every execution of the handler invokes the callback exactly once,
\* whatever the outcome of topic retrieval, completion, parsing, inference
\* fetch and createMemory (executions in which the state call or the
\* configuration failed are left aside).
C1_CallbackExactlyOnce ==
    (h.pc = "done" /\ h.escaped.src \notin {"state", "validateAlloraConfig"})
        => Len(CallsOf("callback")) = 1

\* C2: every execution of the handler hands exactly one memory record to
\* createMemory, whatever the outcome; stated here for the executions that
\* end without an exception.
C2_OneMemoryPerExecution ==
    (h.pc = "done" /\ h.escaped = NoError) => Len(CallsOf("createMemory")) = 1

\* C3: when getAllTopics fails inside the handler, the callback is still
\* invoked and no exception leaves the handler.
C3_TopicsFailureReported ==
    (h.pc = "done" /\ h.topicsErr # "")
        => (h.escaped = NoError /\ Len(CallsOf("callback")) >= 1)

\* C4: when getInferenceByTopicID fails with message m, the callback receives
\* the error text ending in m, an error-tagged memory with error = m is handed
\* to createMemory, and no exception leaves the handler.
C4_FetchFailureReported ==
    (h.pc = "done" /\ h.fetchErr # "")
        => /\ \E i \in 1..Len(h.log) :
                  h.log[i].op = "callback" /\ h.log[i].text = ErrorText(h.fetchErr)
           /\ \E i \in 1..Len(h.log) :
                  /\ h.log[i].op = "createMemory"
                  /\ h.log[i].meta.keys = {"error"}
                  /\ h.log[i].meta.error = h.fetchErr
           /\ h.escaped = NoError

\* C5: getInferenceByTopicID is never called with the id of a topic that is
\* inactive in the topic list obtained for the execution.
C5_InactiveNeverSelected ==
    \A i \in 1..Len(h.log) :
        h.log[i].op = "getInferenceByTopicID"
            => ~ \E k \in 1..Len(h.topics) :
                     /\ h.topics[k].topic_id = h.log[i].id
                     /\ ~h.topics[k].is_active

(***************************************************************************)
(* Claims about the topic cache, checked under SpecCache.                  *)
(***************************************************************************)

\* C6: a get issued less than 1800 seconds after the cache was populated
\* returns the stored topic sequence, the empty one included, and issues no
\* getAllTopics call.  The stored sequence is the one the latest populating
\* get returned (the last write wins).
C6_CacheIdempotence ==
    \A x \in Getters :
        (g[x].pc # "idle" /\ g[x].age >= 0 /\ g[x].age < 1800)
            => /\ g[x].pc = "done"
               /\ g[x].ok
               /\ g[x].topics = g[x].saw
               /\ g[x].calls = 0

C6_Witness ==
    \E x \in Getters :
        g[x].pc = "done" /\ g[x].age = 900 /\ g[x].ok /\ g[x].topics = <<>>

\* C7: a get issued after the TTL has run out (by a runtime whose
\* configuration is valid) issues exactly one getAllTopics call, and when the
\* call answers, the stored entry is exactly the answered list with a new
\* expiry time: the snapshot is replaced as a whole.
C7_CacheRefresh ==
    /\ [](\A x \in Getters :
              (g[x].pc # "idle" /\ g[x].stale /\ g[x].cfgOk) => g[x].calls = 1)
    /\ [][\A x \in Getters :
              (g[x].pc = "topics" /\ g'[x].pc = "done" /\ g'[x].ok)
                  => cache' = [present |-> TRUE, v |-> g'[x].resp, t |-> now + 1800]]_vars

C7_Witness ==
    \E x \in Getters :
        /\ g[x].pc = "done" /\ g[x].stale /\ g[x].ok /\ g[x].calls = 1
        /\ cache.present /\ cache.v = g[x].topics /\ g[x].topics # <<>>

\* C8: when getAllTopics fails during a miss, the get ends with that error and
\* the cache is left as it was (nothing is stored); a get that starts while
\* nothing is stored or the TTL has run out issues the external call (its
\* runtime's configuration being valid), so the next get calls again.
C8_NoNegativeCaching ==
    [][\A x \in Getters :
          /\ (g[x].pc = "topics" /\ g'[x].pc = "done" /\ ~g'[x].ok)
                 => /\ cache' = cache
                    /\ lastPop' = lastPop
                    /\ g'[x].err \in ServiceErrors
          /\ (g[x].pc = "idle" /\ g'[x].pc # "idle" /\ ~lastPop.set /\ g'[x].cfgOk)
                 => /\ g'[x].pc = "topics"
                    /\ g'[x].calls = 1]_vars

C8_Witness ==
    \E x, y \in Getters :
        /\ g[x].pc = "done" /\ g[x].err \in ServiceErrors
        /\ ~cache.present
        /\ g[y].pc = "topics" /\ ~g[y].overlap /\ g[y].calls = 1

\* C9: gets that overlap while nothing is stored or the TTL has run out each
\* issue their own getAllTopics call and return what their own call answered
\* (or fail with their own call's error, never because of the overlap); a
\* waiting get can always complete; and once none is waiting, the cache holds
\* the list written last.
C9_OverlappingMisses ==
    /\ \A x \in Getters :
           (g[x].pc # "idle" /\ g[x].age = -1 /\ g[x].cfgOk)
               => /\ g[x].calls = 1
                  /\ g[x].pc = "done"
                         => \/ g[x].ok /\ g[x].topics = g[x].resp
                            \/ ~g[x].ok /\ g[x].err \in ServiceErrors
    /\ \A x \in InFlight : ENABLED (\E topics \in TopicLists : GetTopicsOk(x, topics))
    /\ (InFlight = {} /\ h.pc # "topics" /\ lastPop.set)
           => cache = [present |-> TRUE, v |-> lastPop.v, t |-> lastPop.at + 1800]

C9_Witness ==
    \E x, y \in Getters :
        /\ g[x].pc = "done" /\ g[x].ok /\ g[x].age = -1 /\ g[x].overlap
        /\ g[y].pc = "done" /\ g[y].ok /\ g[y].age = -1
        /\ g[x].topics # g[y].topics
        /\ cache.v = lastPop.v

(***************************************************************************)
(* Claims about the configuration resolver, checked under SpecConfig.      *)
(***************************************************************************)

\* the value given for a field: the setting unless it is null or undefined,
\* else the environment's
Given(setting, env) == IF setting \notin {Undefined, Null} THEN setting ELSE env

\* C10: a non-empty API key and a chain slug of the enumeration are returned
\* unchanged; the legacy "testnet", from the settings or the environment, is
\* returned as the default member "allora-testnet"; nothing else is rewritten.
C10_ValidConfigUnchanged ==
    cfgOut.run =>
        LET key == Given(cfgIn.settings.ALLORA_API_KEY, cfgIn.env.ALLORA_API_KEY)
            slug == Given(cfgIn.settings.ALLORA_CHAIN_SLUG, cfgIn.env.ALLORA_CHAIN_SLUG)
            valid == key \notin {Undefined, Null, ""}
            res == cfgOut.res
        IN  /\ (valid /\ slug \in {"allora-testnet", "allora-mainnet", "local"})
                   => (res.ok /\ res.ALLORA_API_KEY = key /\ res.ALLORA_CHAIN_SLUG = slug)
            /\ (valid /\ slug = "testnet")
                   => /\ res.ok
                      /\ res.ALLORA_API_KEY = key
                      /\ res.ALLORA_CHAIN_SLUG = "allora-testnet"
            /\ res.ok
                   => /\ res.ALLORA_API_KEY = key
                      /\ res.ALLORA_CHAIN_SLUG # "testnet"
                      /\ \/ res.ALLORA_CHAIN_SLUG = slug
                         \/ slug \in {"testnet", Undefined}

C10_Witness ==
    /\ cfgOut.run /\ cfgOut.res.ok
    /\ cfgIn.settings.ALLORA_CHAIN_SLUG = Null
    /\ cfgIn.env.ALLORA_CHAIN_SLUG = "testnet"
    /\ cfgIn.env.ALLORA_API_KEY = "env-key"
    /\ cfgOut.res.ALLORA_CHAIN_SLUG = "allora-testnet"

\* C11: validateAlloraConfig throws, with an issue whose path names the
\* offending field, whenever the API key resolved is missing or empty or the
\* chain slug resolved is outside the enumeration (the legacy "testnet" aside);
\* it returns no configuration then, and a configuration it returns carries
\* the API key that was given, never a substitute.
C11_InvalidConfigFails ==
    cfgOut.run =>
        LET key == Given(cfgIn.settings.ALLORA_API_KEY, cfgIn.env.ALLORA_API_KEY)
            slug == Given(cfgIn.settings.ALLORA_CHAIN_SLUG, cfgIn.env.ALLORA_CHAIN_SLUG)
            keyBad == key \in {Undefined, Null, ""}
            slugBad == slug \notin ({Undefined, "testnet"} \cup ChainSlugEnum)
            res == cfgOut.res
            names(field) == \E i \in res.issues : i.path = field
        IN  /\ keyBad => (~res.ok /\ names("ALLORA_API_KEY"))
            /\ slugBad => (~res.ok /\ names("ALLORA_CHAIN_SLUG"))
            /\ names("ALLORA_API_KEY") => keyBad
            /\ names("ALLORA_CHAIN_SLUG") => slugBad
            /\ ~res.ok => (res.ALLORA_API_KEY = Undefined /\ res.ALLORA_CHAIN_SLUG = Undefined)
            /\ res.ok => (~keyBad /\ ~slugBad /\ res.ALLORA_API_KEY = key)

C11_Witness ==
    /\ cfgOut.run /\ ~cfgOut.res.ok
    /\ cfgIn.settings.ALLORA_API_KEY = "" /\ cfgIn.env.ALLORA_API_KEY = "env-key"
    /\ cfgIn.settings.ALLORA_CHAIN_SLUG = "invalid-chain"
    /\ cfgOut.res.issues =
           {[path |-> "ALLORA_API_KEY", code |-> "too_small"],
            [path |-> "ALLORA_CHAIN_SLUG", code |-> "invalid_enum_value"]}

\* C12: each field is resolved in the order setting, environment, default
\* (chain slug only).  A setting that is a string, the empty one included, is
\* the value resolved; when getSetting returns null or undefined, a valid
\* environment value is the one returned; when neither gives a chain slug the
\* configuration returned has the default chain.
C12_ResolutionOrder ==
    cfgOut.run =>
        LET sKey == cfgIn.settings.ALLORA_API_KEY
            eKey == cfgIn.env.ALLORA_API_KEY
            sSlug == cfgIn.settings.ALLORA_CHAIN_SLUG
            eSlug == cfgIn.env.ALLORA_CHAIN_SLUG
            absent(v) == v \in {Undefined, Null}
            canon(v) == IF v = "testnet" THEN "allora-testnet" ELSE v
            keyGood == ~absent(Given(sKey, eKey)) /\ Given(sKey, eKey) # ""
            slugGood == Given(sSlug, eSlug) \in ({Undefined, "testnet"} \cup ChainSlugEnum)
            res == cfgOut.res
        IN  /\ (~absent(sKey) /\ res.ok) => res.ALLORA_API_KEY = sKey
            /\ (~absent(sSlug) /\ res.ok) => res.ALLORA_CHAIN_SLUG = canon(sSlug)
            /\ (absent(sKey) /\ ~absent(eKey) /\ eKey # "" /\ slugGood)
                   => (res.ok /\ res.ALLORA_API_KEY = eKey)
            /\ (absent(sSlug) /\ canon(eSlug) \in ChainSlugEnum /\ keyGood)
                   => (res.ok /\ res.ALLORA_CHAIN_SLUG = canon(eSlug))
            /\ (absent(sSlug) /\ absent(eSlug) /\ keyGood)
                   => (res.ok /\ res.ALLORA_CHAIN_SLUG = "allora-testnet")

C12_Witness ==
    /\ cfgOut.run /\ cfgOut.res.ok
    /\ cfgIn.settings = [ALLORA_API_KEY |-> Null, ALLORA_CHAIN_SLUG |-> Null]
    /\ cfgIn.env = [ALLORA_API_KEY |-> "env-key", ALLORA_CHAIN_SLUG |-> Undefined]
    /\ cfgOut.res.ALLORA_API_KEY = "env-key"
    /\ cfgOut.res.ALLORA_CHAIN_SLUG = "allora-testnet"

(***************************************************************************)
(* Claims about what the handler tells the user and records, under Spec.   *)
(***************************************************************************)

\* the completion gave a topic id and a topic name (neither null)
Resolved(c) == c.json /\ c.shape /\ ~c.idNull /\ ~c.nameNull

\* the completion was {topicId: null, topicName: null}
BothNull(c) == c.json /\ c.shape /\ c.idNull /\ c.nameNull

\* C13: when the completion gives {topicId: i, topicName: n} and
\* getInferenceByTopicID(i) answers with the normalized inference v, the next
\* call is the callback with the text "Inference provided by Allora Network on
\* topic n (Topic ID: i): v" and the source "@elizaos-plugins/allora", and the
\* memory handed to createMemory after it has that content and the metadata
\* topicId i, topicName n, inferenceValue v.
C13_ResolvedContent ==
    \A k \in 1..Len(h.log) :
        (h.log[k].op = "getInferenceByTopicID" /\ h.inferenceValue # "")
            => LET i == h.generated.id
                   n == h.generated.name
                   v == h.inferenceValue
                   text == "Inference provided by Allora Network on topic " \o n
                           \o " (Topic ID: " \o ToString(i) \o "): " \o v
               IN  /\ Resolved(h.generated)
                   /\ h.log[k].id = i
                   /\ Len(h.log) >= k + 2
                   /\ h.log[k + 1].op = "callback"
                   /\ h.log[k + 1].text = text
                   /\ h.log[k + 1].source = "@elizaos-plugins/allora"
                   /\ h.log[k + 2].op = "createMemory"
                   /\ h.log[k + 2].text = text
                   /\ h.log[k + 2].source = "@elizaos-plugins/allora"
                   /\ h.log[k + 2].meta.keys = {"topicId", "topicName", "inferenceValue"}
                   /\ h.log[k + 2].meta.topicId = i
                   /\ h.log[k + 2].meta.topicName = n
                   /\ h.log[k + 2].meta.inferenceValue = v

C13_Witness ==
    /\ h.pc = "done" /\ h.escaped = NoError /\ h.topics = <<ETH5>>
    /\ h.generated.id = 13 /\ h.generated.name = "ETH 5min"
    /\ h.inferenceValue = "3393.364326646801085508"
    /\ Len(CallsOf("callback")) = 1
    /\ CallsOf("callback")[1].text =
           "Inference provided by Allora Network on topic ETH 5min (Topic ID: 13): 3393.364326646801085508"
    /\ Len(CallsOf("createMemory")) = 1
    /\ CallsOf("createMemory")[1].meta.topicId = 13

\* C14: in an execution that obtained an empty topic list, or whose completion
\* was {topicId: null, topicName: null}, the callback text is the fixed "no
\* active topic" message, getInferenceByTopicID is not called, and the memory
\* has no topicId and no topicName.  Stated for the executions of a runtime
\* with a valid configuration that end without an exception and whose
\* completion parsed and passed the schema.
C14_NoMatchMessage ==
    (/\ h.pc = "done" /\ h.escaped = NoError
     /\ validateAlloraConfig(h.rt, ProcessEnv).ok
     /\ h.generated.json /\ h.generated.shape
     /\ (h.topics = <<>> \/ BothNull(h.generated)))
        => /\ \A k \in 1..Len(h.log) :
                  /\ h.log[k].op = "callback" => h.log[k].text = NoTopicText
                  /\ h.log[k].op # "getInferenceByTopicID"
                  /\ h.log[k].op = "createMemory"
                         => h.log[k].meta.keys \cap {"topicId", "topicName"} = {}
           /\ Len(CallsOf("callback")) = 1

\* C15: when the completion holds no JSON object or the object fails the
\* schema, the only callback is one of the two retry requests, the handler
\* has ended, getInferenceByTopicID is not called and nothing is thrown.
C15_ParseFailureRetry ==
    (h.generated # NotGenerated /\ (~h.generated.json \/ ~h.generated.shape))
        => /\ h.pc = "done"
           /\ h.escaped = NoError
           /\ Len(CallsOf("callback")) = 1
           /\ CallsOf("callback")[1].text =
                  (IF ~h.generated.json
                   THEN "Failed to understand the request. Please try again."
                   ELSE "Failed to parse the request properly. Please try again.")
           /\ CallsOf("getInferenceByTopicID") = <<>>

C15_Witness ==
    /\ h.pc = "done" /\ h.generated.json /\ ~h.generated.shape
    /\ h.topics = <<ETH5, BTC24>>
    /\ CallsOf("callback")[1].text = ValidationFailedText

\* C16: every createMemory call comes directly after a callback call that
\* carried the same content (text and source), so no memory is handed over
\* before the user has been answered with its message, and the first callback
\* of an execution precedes its first createMemory.
C16_CallbackBeforeMemory ==
    \A k \in 1..Len(h.log) :
        h.log[k].op = "createMemory"
            => /\ k > 1
               /\ h.log[k - 1].op = "callback"
               /\ h.log[k - 1].text = h.log[k].text
               /\ h.log[k - 1].source = h.log[k].source

C16_Witness ==
    /\ h.pc = "done" /\ h.branch = "error" /\ h.fetchErr = "timeout"
    /\ Len(CallsOf("createMemory")) = 1
    /\ h.log[Len(h.log)].op = "createMemory"
    /\ h.log[Len(h.log) - 1] = CallbackCall(ErrorText("timeout"))

\* C17: the metadata of every memory handed to createMemory has type
\* "action_response" and actionName "GET_INFERENCE", and its optional fields
\* are those of exactly one outcome: resolved (topicId, topicName,
\* inferenceValue), no-match (none) or error (error alone).
C17_ThreeOutcomes ==
    \A k \in 1..Len(h.log) :
        h.log[k].op = "createMemory"
            => /\ h.log[k].meta.type = "action_response"
               /\ h.log[k].meta.actionName = "GET_INFERENCE"
               /\ h.log[k].meta.keys \in
                      { {"topicId", "topicName", "inferenceValue"}, {}, {"error"} }

C17_Witness ==
    /\ h.pc = "done" /\ h.escaped = NoError
    /\ Len(CallsOf("createMemory")) = 2
    /\ CallsOf("createMemory")[1].meta.keys = {"topicId", "topicName", "inferenceValue"}
    /\ CallsOf("createMemory")[2].meta.keys = {"error"}

(***************************************************************************)
(* Claims about the structure topicsProvider.get returns.                  *)
(***************************************************************************)

\* C18: in the structure returned for any topic list, values.activeTopics is
\* the number of positions of the list whose topic has is_active true, and
\* values.totalTopics, data.count and the length of data.topics are equal;
\* data.topics is the list the cache holds.  Checked under SpecProvider.
C18_ProviderCounts ==
    \A x \in Getters :
        g[x].out.returned
            => LET out == g[x].out
                   topics == out.data.topics
               IN  /\ topics = cache.v
                   /\ out.values.activeTopics =
                          Cardinality({k \in 1..Len(topics) : topics[k].is_active})
                   /\ out.values.totalTopics = out.data.count
                   /\ out.data.count = Len(topics)

C18_Witness ==
    \E x \in Getters :
        /\ g[x].out.returned
        /\ g[x].out.data.topics = <<BTC24, ETH5, ETH5, BTC24>>
        /\ g[x].out.values.activeTopics = 2
        /\ g[x].out.values.totalTopics = 4

C20_RenderedText ==
    \A x \in Getters :
        g[x].out.returned
            => LET topics == g[x].out.data.topics
                   text == g[x].out.text
               IN  /\ Len(text) = 1 + 6 * Len(topics)
                   /\ text[1] = "Allora Network Topics: "
                   /\ \A k \in 1..Len(topics) :
                          LET at == 6 * (k - 1) + 1 IN
                          /\ text[at + 1] = "Topic Name: " \o topics[k].topic_name
                          /\ text[at + 2] = "Topic Description: " \o topics[k].description
                          /\ text[at + 3] = "Topic ID: " \o ToString(topics[k].topic_id)
                          /\ text[at + 4] = "Topic is Active: "
                                 \o (IF topics[k].is_active THEN "true" ELSE "false")
                          /\ text[at + 5] = "Topic Updated At: " \o topics[k].updated_at
                          /\ text[at + 6] = ""

C20_Witness ==
    \E x \in Getters :
        /\ g[x].out.returned
        /\ g[x].out.data.topics = <<BTC24, SOL10, BTC24>>
        /\ Len(g[x].out.text) = 19
        /\ g[x].out.text[2] = "Topic Name: BTC 24h"
        /\ g[x].out.text[5] = "Topic is Active: false"
        /\ g[x].out.text[10] = "Topic ID: 15"
        /\ g[x].out.text[14] = "Topic Name: BTC 24h"

(***************************************************************************)
(* Claims about the order of the handler's steps, under Spec.              *)
(***************************************************************************)

\* the step of the handler a call belongs to
StepOf(op) ==
    CASE op = "state" -> 1
      [] op = "getAllTopics" -> 2
      [] op = "generateText" -> 3
      [] op = "getInferenceByTopicID" -> 4
      [] OTHER -> 5

\* the operation the handler is waiting for at a pc, "" when it waits for none
\* of the first four steps
Awaited(pc) ==
    CASE pc = "state" -> "state"
      [] pc = "topics" -> "getAllTopics"
      [] pc = "generate" -> "generateText"
      [] pc = "inference" -> "getInferenceByTopicID"
      [] OTHER -> ""

\* C21: the calls of one invocation are made in the order state, getAllTopics
\* (on a cache miss), generateText, getInferenceByTopicID, then callback and
\* createMemory; while the handler waits for one of them it is the latest call
\* made, so no later step has started; and getInferenceByTopicID is called
\* only after generateText has answered with the topic it is called for.
C21_StepsInOrder ==
    /\ h.log # <<>> => h.log[1].op = "state"
    /\ \A k \in 1..Len(h.log) - 1 : StepOf(h.log[k].op) <= StepOf(h.log[k + 1].op)
    /\ Awaited(h.pc) # "" => h.log[Len(h.log)].op = Awaited(h.pc)
    /\ \A k \in 1..Len(h.log) :
           h.log[k].op = "getInferenceByTopicID"
               => /\ \E j \in 1..k - 1 : h.log[j].op = "generateText"
                  /\ h.generated # NotGenerated
                  /\ h.log[k].id = h.generated.id

C21_Witness ==
    /\ h.pc = "done" /\ h.escaped = NoError
    /\ Len(h.log) = 6
    /\ h.log[1].op = "state" /\ h.log[2].op = "getAllTopics"
    /\ h.log[3].op = "generateText" /\ h.log[4].op = "getInferenceByTopicID"
    /\ h.log[5].op = "callback" /\ h.log[6].op = "createMemory"

\* C22: in one invocation getAllTopics, generateText and getInferenceByTopicID
\* are each called at most once (and a get of the host calls getAllTopics at
\* most once); after a call has failed no external call follows: a failed
\* getAllTopics or generateText ends the handler with that error, a failed
\* getInferenceByTopicID is followed directly by the callback with its message.
C22_NoRetry ==
    /\ \A op \in {"getAllTopics", "generateText", "getInferenceByTopicID"} :
           Len(CallsOf(op)) <= 1
    /\ \A x \in Getters : g[x].calls <= 1
    /\ h.topicsErr # ""
           => /\ h.pc = "done" /\ h.escaped = [src |-> "getAllTopics", msg |-> h.topicsErr]
              /\ h.log[Len(h.log)].op = "getAllTopics"
    /\ h.escaped.src = "generateText"
           => (h.pc = "done" /\ h.log[Len(h.log)].op = "generateText")
    /\ h.fetchErr # ""
           => \A k \in 1..Len(h.log) :
                  h.log[k].op = "getInferenceByTopicID"
                      => /\ Len(h.log) > k
                         /\ h.log[k + 1].op = "callback"
                         /\ h.log[k + 1].text =
                                "There was an error fetching the inference from Allora Network: "
                                \o h.fetchErr
                         /\ \A j \in k + 1..Len(h.log) :
                                h.log[j].op \in {"callback", "createMemory"}

C22_Witness ==
    /\ h.pc = "done" /\ h.fetchErr = "timeout"
    /\ Len(CallsOf("getAllTopics")) = 1
    /\ Len(CallsOf("generateText")) = 1
    /\ Len(CallsOf("getInferenceByTopicID")) = 1

\* C24: the completion that passed the schema (inferenceFields) has topicId
\* and topicName both null or both present.
C24_BothOrNeither ==
    (h.fields.json /\ h.fields.shape) => (h.fields.idNull <=> h.fields.nameNull)

\* C27: the id passed to getInferenceByTopicID is the id of a topic of the
\* list topicsProvider.get returned in the same execution.
C27_FetchedTopicListed ==
    \A k \in 1..Len(h.log) :
        h.log[k].op = "getInferenceByTopicID"
            => \E j \in 1..Len(h.topics) : h.topics[j].topic_id = h.log[k].id

\* C28: a completion that passed the schema leads to the inference fetch
\* exactly when topicId and topicName are both non-null, the number 0 and the
\* empty string included, and to the no-match branch only when one is null.
\* Stated for the executions of a runtime with a valid configuration.
C28_FetchIffNonNull ==
    (/\ h.generated.json /\ h.generated.shape
     /\ validateAlloraConfig(h.rt, ProcessEnv).ok)
        => /\ Resolved(h.generated)
                  => /\ Len(CallsOf("getInferenceByTopicID")) = 1
                     /\ CallsOf("getInferenceByTopicID")[1].id = h.generated.id
           /\ ~Resolved(h.generated) => CallsOf("getInferenceByTopicID") = <<>>
           /\ (h.generated.idNull \/ h.generated.nameNull) <=> h.branch = "nomatch"

(***************************************************************************)
(* Claim about validate, checked under SpecValidate.                       *)
(***************************************************************************)

\* C25: getInferenceAction.validate returns true for every runtime and
\* every message, a message whose id, content, entityId and roomId are null
\* included, and never throws.
C25_ValidateAlwaysTrue == val.run => (val.result = TRUE /\ ~val.threw)

C25_Witness ==
    /\ val.run
    /\ val.message = Message(Null, Null, Null, Null)
    /\ val.runtime.ALLORA_API_KEY = Null
    /\ val.result = TRUE
    /\ ~val.threw

(***************************************************************************)
(* Claim about AlloraService, checked under SpecService.                   *)
(***************************************************************************)
ClientSet == svc.last \in {"initialize", "start"}

C30_NoEmptyCaching ==
    /\ []((sg.pc = "done" /\ sg.miss /\ ~sg.up)
            => (sg.ok /\ sg.topics = <<>> /\ sg.calls = 0
                /\ sg.out = ProviderResult(<<>>)))
    /\ [][(sg.pc = "idle" /\ sg'.pc # "idle" /\ sg'.miss /\ ~sg'.up)
            => ~scache'.present]_vars
    /\ [][(scache' # scache /\ scache'.present)
            => (sg.pc = "topics" \/ sh.pc = "topics")]_vars
    /\ []((sg.pc = "done" /\ sg.after /\ sg.miss /\ sg.up /\ sg.ok)
            => (sg.calls = 1 /\ sg.topics = sg.resp
                /\ sg.out = ProviderResult(sg.resp)))

C30_Witness ==
    /\ sg.pc = "done"
    /\ sg.after
    /\ sg.miss
    /\ sg.up
    /\ sg.calls = 1
    /\ sg.topics = <<ETH5, BTC24>>

\* C23: an execution of the service-bound handler during which the service
\* was never initialized, and which no error escaped, sent the user the
\* configuration-check message, and that alone, and issued neither
\* getAllTopics nor getInferenceByTopicID.
C23_ConfigCheckMessage ==
    (sh.pc = "done" /\ sh.escaped = NoError /\ ~sh.svcUp)
        => /\ SelectSeq(sh.log, LAMBDA c : c.op = "callback")
                  = << CallbackCall(NotInitializedText) >>
           /\ \A i \in 1..Len(sh.log) :
                  sh.log[i].op \notin {"getAllTopics", "getInferenceByTopicID"}

(***************************************************************************)
(* Claim about the cache shared by the runtimes, checked under SpecShared. *)
(***************************************************************************)

\* C26: the topic list a get returns to a runtime whose configuration is
\* valid was fetched through a client made from that runtime's own chain
\* slug and API key.
C26_OwnConfiguration ==
    \A x \in Getters :
        (g[x].pc = "done" /\ g[x].ok /\ g[x].cfgOk)
            => g[x].by = Client(validateAlloraConfig(g[x].rt, ProcessEnv))

====
